---------------------------- MODULE Spec2Model ----------------------------
(***************************************************************************)
(* A model of gpx_parser.py: the GPX track analyzer.                       *)
(*                                                                         *)
(* Units.  Coordinates are integers counting arcs of one metre on a sphere *)
(* of radius 6371 km, close to the point (0, 0), where the haversine       *)
(* formula reduces to the planar distance; distances are whole metres      *)
(* (0.01 km = 10, 0.5 km = 500), instants and durations are whole seconds. *)
(***************************************************************************)
EXTENDS Integers, Sequences, FiniteSets, TLC

(***************************************************************************)
(* Bounds of the model.                                                    *)
(***************************************************************************)
MaxPts == 3
MaxSegs == 2
MaxTracks == 2
MaxFrame == 6

(***************************************************************************)
(* Program constants.                                                      *)
(***************************************************************************)
min_movement_threshold == 10
MaxTimeDiff == 3600
max_retries == 3
EndLookupThreshold == 500

(***************************************************************************)
(* The input document: optional attributes and the time element.           *)
(***************************************************************************)
None == <<>>
Some(v) == <<v>>

TimeElem(kind, at) == [kind |-> kind, at |-> at]
TrkPt(lat, lon, time) == [lat |-> lat, lon |-> lon, time |-> time]

\* Well-formed points: two positions 10 m apart, three instants.
ValidPts ==
    {TrkPt(Some(lat), Some(40), TimeElem("iso", at)) : lat \in {10, 20}, at \in {0, 1, 3601}}

\* Points with one defect each: no lat, no lon, no time element, a time element
\* without text, a time text that fromisoformat rejects.
FaultyPts ==
    {TrkPt(None, Some(40), TimeElem("iso", 1)),
     TrkPt(Some(10), None, TimeElem("iso", 1)),
     TrkPt(Some(10), Some(40), TimeElem("absent", 0)),
     TrkPt(Some(10), Some(40), TimeElem("empty", 0)),
     TrkPt(Some(10), Some(40), TimeElem("bad", 0))}

TrkPts == ValidPts \cup FaultyPts

\* An attribute whose text float rejects, and the test for it.
Malformed == <<0, 0>>
NotANumber(attr) == Len(attr) = 2

\* float(point.get('lat', 0)): a missing attribute reads as 0.
CoordOf(attr) == IF attr = None THEN 0 ELSE attr[1]

\* A variant that takes any time element for a time, with or without text.
HasTimeElement(p) == p.time.kind # "absent"

\* A variant that takes a time text fromisoformat rejects for a time.
HasTimeUnchecked(p) == p.time.kind \in {"iso", "bad"}

\* time_elem is not None and time_elem.text, then fromisoformat without ValueError.
HasTime(p) == p.time.kind = "iso"
ParsedTime(p) == p.time.at


(***************************************************************************)
(* haversine_distance.  With one coordinate unit an arc of one metre and   *)
(* all points within a few hundred metres of (0, 0): sin x = x, cos x = 1  *)
(* and asin x = x to well below a metre, so a = (dlat/2)^2 + (dlon/2)^2    *)
(* and c * r = 2 * sqrt(a) = sqrt(dlat^2 + dlon^2), in whole metres (the    *)
(* integer part).                                                          *)
(***************************************************************************)
\* The integer part of the square root of n, known to lie in lo..hi.
RECURSIVE SqrtBetween(_, _, _)
SqrtBetween(n, lo, hi) ==
    IF lo >= hi THEN lo
    ELSE LET mid == (lo + hi + 1) \div 2
         IN  IF mid * mid <= n THEN SqrtBetween(n, mid, hi) ELSE SqrtBetween(n, lo, mid - 1)

Abs(x) == IF x < 0 THEN -x ELSE x

haversine_distance(lat1, lon1, lat2, lon2) ==
    LET dlat == lat2 - lat1
        dlon == lon2 - lon1
    IN  SqrtBetween(dlat * dlat + dlon * dlon, 0, Abs(dlat) + Abs(dlon))

(***************************************************************************)
(* calculate_moving_speed.                                                 *)
(***************************************************************************)
RECURSIVE Flatten(_)
Flatten(segments) ==
    IF segments = <<>> THEN <<>> ELSE Head(segments) \o Flatten(Tail(segments))

\* One retained point: coordinates read with the default 0, the parsed time.
Retained(p) == [lat |-> CoordOf(p.lat), lon |-> CoordOf(p.lon), time |-> ParsedTime(p)]

RECURSIVE CollectFrom(_)
CollectFrom(points) ==
    IF points = <<>> THEN <<>>
    ELSE IF HasTime(Head(points))
         THEN <<Retained(Head(points))>> \o CollectFrom(Tail(points))
         ELSE CollectFrom(Tail(points))

CollectPoints(segments) == CollectFrom(Flatten(segments))

\* list.sort(key=time): a stable sort. x goes after every element whose key is
\* not greater than its own.
\* A variant that puts x before the elements of equal key: not stable.
RECURSIVE InsertBeforeEqual(_, _)
InsertBeforeEqual(x, sorted) ==
    IF sorted = <<>> THEN <<x>>
    ELSE IF Head(sorted).time < x.time
         THEN <<Head(sorted)>> \o InsertBeforeEqual(x, Tail(sorted))
         ELSE <<x>> \o sorted

RECURSIVE InsertByTime(_, _)
InsertByTime(x, sorted) ==
    IF sorted = <<>> THEN <<x>>
    ELSE IF Head(sorted).time <= x.time
         THEN <<Head(sorted)>> \o InsertByTime(x, Tail(sorted))
         ELSE <<x>> \o sorted

RECURSIVE SortFrom(_, _)
SortFrom(rest, sorted) ==
    IF rest = <<>> THEN sorted
    ELSE SortFrom(Tail(rest), InsertByTime(Head(rest), sorted))

SortByTime(points) == SortFrom(points, <<>>)

PairDistance(prev_point, curr_point) ==
    haversine_distance(prev_point.lat, prev_point.lon, curr_point.lat, curr_point.lon)

\* A variant that counts the time between two points twice.
PairTimeDiffTwice(prev_point, curr_point) == 2 * (curr_point.time - prev_point.time)

\* Line 225: total_seconds of the difference of the two times.
PairTimeDiff(prev_point, curr_point) == curr_point.time - prev_point.time

\* A variant that counts a pair of points of the same instant too.
IsMovementAnyTime(distance, time_diff) ==
    /\ distance >= min_movement_threshold
    /\ time_diff <= MaxTimeDiff

\* A variant with the two bounds that are inclusive made strict.
IsMovementStrict(distance, time_diff) ==
    /\ distance > min_movement_threshold
    /\ 0 < time_diff
    /\ time_diff < MaxTimeDiff

\* distance >= min_movement_threshold and 0 < time_diff <= 3600
IsMovement(distance, time_diff) ==
    /\ distance >= min_movement_threshold
    /\ 0 < time_diff
    /\ time_diff <= MaxTimeDiff

\* The body of the loop over consecutive pairs, on the totals so far.
PairStep(totals, prev_point, curr_point) ==
    LET distance == PairDistance(prev_point, curr_point)
        time_diff == PairTimeDiff(prev_point, curr_point)
    IN  IF IsMovement(distance, time_diff)
        THEN [distance |-> totals.distance + distance, time |-> totals.time + time_diff]
        ELSE totals

RECURSIVE PairsFrom(_, _, _)
PairsFrom(points, i, totals) ==
    IF i > Len(points) THEN totals
    ELSE PairsFrom(points, i + 1, PairStep(totals, points[i - 1], points[i]))

ZeroTotals == [distance |-> 0, time |-> 0]

\* x * 0.621371 and x * 0.539957, the factors cut to three decimals.
ToMiles(x) == (x * 621) \div 1000
ToNautical(x) == (x * 540) \div 1000

\* The record returned when fewer than two points carry a time.
EarlyStats ==
    [avg_speed_kmh |-> 0, avg_speed_mph |-> 0,
     total_distance_km |-> 0, total_distance_miles |-> 0,
     moving_time_seconds |-> 0, moving_time_hours |-> 0]

\* A variant whose average speed is per second: the factor 3600 is left out.
StatsOfPerSecond(totals) ==
    LET avg_speed_kmh == IF totals.time > 0 THEN totals.distance \div totals.time ELSE 0
        moving_time_hours == IF totals.time > 0
                             THEN (totals.time * 1000) \div 3600
                             ELSE 0
    IN  [avg_speed_kmh |-> avg_speed_kmh,
         avg_speed_mph |-> ToMiles(avg_speed_kmh),
         avg_speed_knots |-> ToNautical(avg_speed_kmh),
         total_distance_km |-> totals.distance,
         total_distance_miles |-> ToMiles(totals.distance),
         total_distance_nautical_miles |-> ToNautical(totals.distance),
         moving_time_seconds |-> totals.time,
         moving_time_hours |-> moving_time_hours]

\* Speeds in metres per hour, moving_time_hours in thousandths of an hour.
StatsOf(totals) ==
    LET avg_speed_kmh == IF totals.time > 0
                         THEN (totals.distance * 3600) \div totals.time
                         ELSE 0
        moving_time_hours == IF totals.time > 0
                             THEN (totals.time * 1000) \div 3600
                             ELSE 0
    IN  [avg_speed_kmh |-> avg_speed_kmh,
         avg_speed_mph |-> ToMiles(avg_speed_kmh),
         avg_speed_knots |-> ToNautical(avg_speed_kmh),
         total_distance_km |-> totals.distance,
         total_distance_miles |-> ToMiles(totals.distance),
         total_distance_nautical_miles |-> ToNautical(totals.distance),
         moving_time_seconds |-> totals.time,
         moving_time_hours |-> moving_time_hours]

calculate_moving_speed(segments) ==
    LET collected == CollectPoints(segments)
    IN  IF Len(collected) < 2 THEN EarlyStats
        ELSE StatsOf(PairsFrom(SortByTime(collected), 2, ZeroTotals))

(***************************************************************************)
(* parse_gpx_file: the two passes over a track's segments.                 *)
(***************************************************************************)
\* A variant that takes the first and the last time met in file order.
RECURSIVE TimesInFileOrder(_, _)
TimesInFileOrder(points, acc) ==
    IF points = <<>> THEN acc
    ELSE LET p == Head(points)
             point_time == ParsedTime(p)
             first_time == IF acc.first_time = None THEN Some(point_time) ELSE acc.first_time
         IN  TimesInFileOrder(Tail(points),
                              IF HasTime(p)
                              THEN [acc EXCEPT !.first_time = first_time,
                                               !.last_time = Some(point_time)]
                              ELSE acc)

\* first_time / last_time over the points of one segment, in file order.
RECURSIVE TimesFrom(_, _)
TimesFrom(points, acc) ==
    IF points = <<>> THEN acc
    ELSE LET p == Head(points)
             point_time == ParsedTime(p)
             first_time == IF acc.first_time = None \/ point_time < acc.first_time[1]
                           THEN Some(point_time) ELSE acc.first_time
             last_time == IF acc.last_time = None \/ point_time > acc.last_time[1]
                          THEN Some(point_time) ELSE acc.last_time
         IN  TimesFrom(Tail(points),
                       IF HasTime(p)
                       THEN [acc EXCEPT !.first_time = first_time, !.last_time = last_time]
                       ELSE acc)

\* A variant that takes the start from every segment that has a point, not from
\* the first one alone.
ScanSegmentRestart(acc, points) ==
    LET counted == [acc EXCEPT !.total_points = @ + Len(points)]
        ended == IF points # <<>>
                 THEN [counted EXCEPT !.start_lat = Some(CoordOf(points[1].lat)),
                                      !.start_lon = Some(CoordOf(points[1].lon)),
                                      !.end_lat = Some(CoordOf(points[Len(points)].lat)),
                                      !.end_lon = Some(CoordOf(points[Len(points)].lon))]
                 ELSE counted
    IN  TimesFrom(points, ended)

\* The body of the loop "for segment in segments" that counts the points and
\* finds the start and end coordinates and the time range.
ScanSegment(acc, points) ==
    LET counted == [acc EXCEPT !.total_points = @ + Len(points)]
        started == IF points # <<>> /\ acc.start_lat = None
                   THEN [counted EXCEPT !.start_lat = Some(CoordOf(points[1].lat)),
                                        !.start_lon = Some(CoordOf(points[1].lon))]
                   ELSE counted
        ended == IF points # <<>>
                 THEN [started EXCEPT !.end_lat = Some(CoordOf(points[Len(points)].lat)),
                                      !.end_lon = Some(CoordOf(points[Len(points)].lon))]
                 ELSE started
    IN  TimesFrom(points, ended)

RECURSIVE ScanFrom(_, _)
ScanFrom(segments, acc) ==
    IF segments = <<>> THEN acc
    ELSE ScanFrom(Tail(segments), ScanSegment(acc, Head(segments)))

ScanInit ==
    [total_points |-> 0, first_time |-> None, last_time |-> None,
     start_lat |-> None, start_lon |-> None, end_lat |-> None, end_lon |-> None]

ScanTrack(segments) == ScanFrom(segments, ScanInit)

\* A variant whose minimum latitude is that of the first point, never lowered.
BoundsStepFirstMin(b, p) ==
    LET lat == CoordOf(p.lat)
        lon == CoordOf(p.lon)
    IN  [min_lat |-> IF b.min_lat = None THEN Some(lat) ELSE b.min_lat,
         max_lat |-> IF b.max_lat = None \/ lat > b.max_lat[1] THEN Some(lat) ELSE b.max_lat,
         min_lon |-> IF b.min_lon = None \/ lon < b.min_lon[1] THEN Some(lon) ELSE b.min_lon,
         max_lon |-> IF b.max_lon = None \/ lon > b.max_lon[1] THEN Some(lon) ELSE b.max_lon]

\* The body of the loop that keeps the running minimum and maximum.
BoundsStep(b, p) ==
    LET lat == CoordOf(p.lat)
        lon == CoordOf(p.lon)
    IN  [min_lat |-> IF b.min_lat = None \/ lat < b.min_lat[1] THEN Some(lat) ELSE b.min_lat,
         max_lat |-> IF b.max_lat = None \/ lat > b.max_lat[1] THEN Some(lat) ELSE b.max_lat,
         min_lon |-> IF b.min_lon = None \/ lon < b.min_lon[1] THEN Some(lon) ELSE b.min_lon,
         max_lon |-> IF b.max_lon = None \/ lon > b.max_lon[1] THEN Some(lon) ELSE b.max_lon]

RECURSIVE BoundsFrom(_, _)
BoundsFrom(points, b) ==
    IF points = <<>> THEN b ELSE BoundsFrom(Tail(points), BoundsStep(b, Head(points)))

BoundsInit == [min_lat |-> None, max_lat |-> None, min_lon |-> None, max_lon |-> None]

TrackBounds(segments) == BoundsFrom(Flatten(segments), BoundsInit)

(***************************************************************************)
(* The tracks a document may hold: at most MaxSegs segments with at most   *)
(* MaxPts points between them.                                             *)
(***************************************************************************)
SeqsUpTo(S, n) == UNION {[1..k -> S] : k \in 0..n}

RECURSIVE SumSeq(_)
SumSeq(s) == IF s = <<>> THEN 0 ELSE Head(s) + SumSeq(Tail(s))

\* The ways of cutting n points into at most MaxSegs segments, as lengths.
Cuts(n) == {lens \in SeqsUpTo(0..n, MaxSegs) : SumSeq(lens) = n}

RECURSIVE SplitBy(_, _)
SplitBy(points, lens) ==
    IF lens = <<>> THEN <<>>
    ELSE <<SubSeq(points, 1, Head(lens))>>
         \o SplitBy(SubSeq(points, Head(lens) + 1, Len(points)), Tail(lens))

(***************************************************************************)
(* get_place_name and get_state_abbreviation.  An address record maps the  *)
(* keys the code reads to strings, "" for a key that is absent.  A place   *)
(* is the list of parts that ', '.join puts together, or the coordinate    *)
(* string, or "Unknown".                                                   *)
(***************************************************************************)
Address(city, suburb, state, country) ==
    [city |-> city, town |-> "", village |-> "", hamlet |-> "",
     suburb |-> suburb, neighbourhood |-> "",
     state |-> state, province |-> "", region |-> "", country |-> country]

state_abbrevs ==
    {<<"Alabama", "AL">>, <<"Alaska", "AK">>, <<"Arizona", "AZ">>, <<"Arkansas", "AR">>,
     <<"California", "CA">>, <<"Colorado", "CO">>, <<"Connecticut", "CT">>,
     <<"Delaware", "DE">>, <<"Florida", "FL">>, <<"Georgia", "GA">>, <<"Hawaii", "HI">>,
     <<"Idaho", "ID">>, <<"Illinois", "IL">>, <<"Indiana", "IN">>, <<"Iowa", "IA">>,
     <<"Kansas", "KS">>, <<"Kentucky", "KY">>, <<"Louisiana", "LA">>, <<"Maine", "ME">>,
     <<"Maryland", "MD">>, <<"Massachusetts", "MA">>, <<"Michigan", "MI">>,
     <<"Minnesota", "MN">>, <<"Mississippi", "MS">>, <<"Missouri", "MO">>,
     <<"Montana", "MT">>, <<"Nebraska", "NE">>, <<"Nevada", "NV">>,
     <<"New Hampshire", "NH">>, <<"New Jersey", "NJ">>, <<"New Mexico", "NM">>,
     <<"New York", "NY">>, <<"North Carolina", "NC">>, <<"North Dakota", "ND">>,
     <<"Ohio", "OH">>, <<"Oklahoma", "OK">>, <<"Oregon", "OR">>, <<"Pennsylvania", "PA">>,
     <<"Rhode Island", "RI">>, <<"South Carolina", "SC">>, <<"South Dakota", "SD">>,
     <<"Tennessee", "TN">>, <<"Texas", "TX">>, <<"Utah", "UT">>, <<"Vermont", "VT">>,
     <<"Virginia", "VA">>, <<"Washington", "WA">>, <<"West Virginia", "WV">>,
     <<"Wisconsin", "WI">>, <<"Wyoming", "WY">>}

\* A variant that keeps every state name in full.
StateNameKept(state_name) == state_name

get_state_abbreviation(state_name) ==
    IF \E e \in state_abbrevs : e[1] = state_name
    THEN (CHOOSE e \in state_abbrevs : e[1] = state_name)[2]
    ELSE state_name

\* a or b, on strings.
Or(a, b) == IF a # "" THEN a ELSE b

\* f"{x:.4f}" of a coordinate: the nearest multiple of 0.0001 degree, which is
\* 11.1 m of arc (coordinates of the model are not negative).
FourDecimals(x) == (x * 10 + 55) \div 111

Unknown == [kind |-> "unknown", parts |-> <<>>, lat |-> 0, lon |-> 0]
CoordString(lat, lon) ==
    [kind |-> "coords", parts |-> <<>>, lat |-> FourDecimals(lat), lon |-> FourDecimals(lon)]
Joined(place_parts) == [kind |-> "name", parts |-> place_parts, lat |-> 0, lon |-> 0]

\* Lines 89-129: the place built from the address of a location.
PlaceOfAddress(address, lat, lon) ==
    LET city == Or(address.city, Or(address.town, Or(address.village, address.hamlet)))
        state == Or(address.state, Or(address.province, address.region))
        country == address.country
        locality == IF city # "" THEN <<city>>
                    ELSE IF address.suburb # "" THEN <<address.suburb>>
                    ELSE IF address.neighbourhood # "" THEN <<address.neighbourhood>>
                    ELSE <<>>
        region == IF state # "" /\ country # "United States" THEN <<state>>
                  ELSE IF state # "" /\ country = "United States"
                       THEN <<get_state_abbreviation(state)>>
                       ELSE <<>>
        nation == IF country # "" /\ country # "United States" THEN <<country>> ELSE <<>>
        place_parts == locality \o region \o nation
    IN  IF place_parts # <<>> THEN Joined(place_parts) ELSE CoordString(lat, lon)

\* What geolocator.reverse may do on one call: return a location with an address,
\* return None, or raise GeocoderTimedOut or GeocoderServiceError.
Addresses ==
    {Address("Boulder", "", "Colorado", "United States"),
     Address("", "", "", "")}

NoAddress == Address("", "", "", "")
Outcome(kind, address) == [kind |-> kind, address |-> address]
GeocoderOutcomes ==
    {Outcome("location", a) : a \in Addresses}
    \cup {Outcome(k, NoAddress) : k \in {"none", "timed_out", "service_error"}}

(***************************************************************************)
(* The command line and the document at the path given.                    *)
(***************************************************************************)
FileName(stem, ext) == [stem |-> stem, ext |-> ext]
default_file == FileName("explore", "gpx")
Dash == FileName("-", "")
NoFile == FileName("", "")

\* file_path == default_file or file_path.endswith('.gpx')
LooksLikeGpx(file_path) == file_path = default_file \/ file_path.ext = "gpx"

\* The command line; gpx_file is NoFile when no positional argument is given.
ArgSets ==
    [gpx_file : {NoFile, Dash, FileName("ride", "gpx"), FileName("ride", "txt")},
     max_tracks : {None, Some(0), Some(1)},
     output : {FileName("track_list", "txt")},
     csv : {NoFile, FileName("tracks", "csv")},
     html : {NoFile, FileName("viz", "html")}]

RoutePt(lat, at) == TrkPt(Some(lat), Some(40), TimeElem("iso", at))

\* The tracks of a document: no point, one point, two points 500 m apart in two
\* segments, two points 510 m apart.
DocTracks ==
    {<< <<>> >>,
     << <<RoutePt(10, 0)>> >>,
     << <<RoutePt(10, 0)>>, <<RoutePt(510, 1)>> >>,
     << <<RoutePt(10, 0), RoutePt(520, 1)>> >>}

Documents ==
    {[state |-> "ok", trks |-> t] : t \in SeqsUpTo(DocTracks, MaxTracks)}
    \cup {[state |-> st, trks |-> <<>>] : st \in {"missing", "malformed"}}

(***************************************************************************)
(* State.                                                                  *)
(***************************************************************************)
VARIABLES
    pc,                 \* main and parse_gpx_file: the statement to run next
    args,               \* the parsed command line
    doc,                \* the file at file_path: its state and its trk elements
    tracks,             \* parse_gpx_file: the tracks to process
    i,                  \* parse_gpx_file: the index of the track in hand, from 1
    track_info,         \* parse_gpx_file: the summaries so far, then its result
    start_place,        \* parse_gpx_file: the start place of the track in hand
    end_place,          \* parse_gpx_file: the end place of the track in hand
    gp,                 \* get_place_name: its frame, kept until the caller goes on
    lookups,            \* the calls of get_place_name while a track is in hand
    printed,            \* the messages printed, in order
    written,            \* the files written, in order
    segments,           \* the trkseg elements of the track in hand
    scan,               \* total_points, first/last time, start/end coordinates
    bounds,             \* min/max lat/lon
    speed_stats,        \* the record calculate_moving_speed returned
    fpc,                \* calculate_moving_speed: the statement to run next
    all_points,         \* calculate_moving_speed: the retained points
    idx,                \* calculate_moving_speed: i of the loop over pairs
    total_distance,     \* calculate_moving_speed: metres
    total_moving_time,  \* calculate_moving_speed: seconds
    trackData,          \* the page: track.points.length of each entry of trackData
    page                \* the page: its script's variables, buttons and timers

mainVars == <<pc, args, doc, tracks, i, track_info, start_place, end_place, gp,
              lookups, printed, written>>
trackVars == <<segments, scan, bounds, speed_stats>>
filterVars == <<fpc, all_points, idx, total_distance, total_moving_time>>
pageVars == <<trackData, page>>

vars == <<mainVars, trackVars, filterVars, pageVars>>

\* attempt is the loop variable; calls, slept (since the last call) and last (what
\* the last call did) record what the call has done so far.
IdleFrame == [who |-> "nobody", lat |-> 0, lon |-> 0, attempt |-> 0, calls |-> 0,
              slept |-> FALSE, last |-> Outcome("no call", NoAddress)]

MainIdle ==
    /\ pc = "idle"
    /\ args = CHOOSE a \in ArgSets : TRUE
    /\ doc = [state |-> "ok", trks |-> <<>>]
    /\ tracks = <<>>
    /\ i = 0
    /\ track_info = <<>>
    /\ start_place = Unknown
    /\ end_place = Unknown
    /\ gp = IdleFrame
    /\ lookups = <<>>
    /\ printed = <<>>
    /\ written = <<>>

TrackIdle ==
    /\ scan = ScanInit
    /\ bounds = BoundsInit
    /\ speed_stats = None

FilterIdle ==
    /\ all_points = <<>>
    /\ idx = 0
    /\ total_distance = 0
    /\ total_moving_time = 0

(***************************************************************************)
(* The script of the page.  page holds the variables isAnimating,          *)
(* currentFrame and animationId, the disabled attribute of the two buttons *)
(* that have one, the timers set and not yet fired or cleared, and, for    *)
(* each track, the number of points the last drawing showed.  The speed    *)
(* slider and the tooltip handlers change none of these.                   *)
(***************************************************************************)
\* Lines 919-921 and 967-970, then drawTracks() at line 1329.
LoadedPage(data) ==
    [isAnimating |-> FALSE, currentFrame |-> 0, animationId |-> None,
     startBtn |-> FALSE, pauseBtn |-> TRUE, timers |-> {},
     shown |-> [t \in 1..Len(data) |-> 0]]

PageIdle ==
    /\ trackData = <<>>
    /\ page = LoadedPage(<<>>)

\* Math.max() of no argument is -Infinity, below every frame number.
MinusInfinity == -1

\* Line 1296: Math.max(...trackData.map(track => track.points.length)).
maxFrames ==
    IF trackData = <<>> THEN MinusInfinity
    ELSE CHOOSE n \in {trackData[t] : t \in 1..Len(trackData)} :
            \A t \in 1..Len(trackData) : trackData[t] <= n

\* Line 1162: Math.min(currentFrame, track.points.length).
pointsToShow(frame, length) == IF frame <= length THEN frame ELSE length

\* drawTracks, lines 1144-1287: what it shows of each track.
drawTracks(p) ==
    [p EXCEPT !.shown = [t \in 1..Len(trackData) |->
                            pointsToShow(p.currentFrame, trackData[t])]]

\* clearTimeout(animationId) when animationId is not null.
clearTimeout(p) ==
    IF p.animationId # None THEN p.timers \ {p.animationId[1]} ELSE p.timers

\* A variant of pauseAnimation that leaves the timer to fire.
pauseAnimationNoClear(p) ==
    [p EXCEPT !.isAnimating = FALSE, !.startBtn = FALSE, !.pauseBtn = TRUE]

\* pauseAnimation, lines 1110-1117.
pauseAnimation(p) ==
    [p EXCEPT !.isAnimating = FALSE, !.startBtn = FALSE, !.pauseBtn = TRUE,
              !.timers = clearTimeout(p)]

\* resetAnimation, lines 1119-1142: the canvas is cleared, nothing is drawn.
resetAnimation(p) ==
    [p EXCEPT !.isAnimating = FALSE, !.currentFrame = 0,
              !.startBtn = FALSE, !.pauseBtn = TRUE,
              !.timers = clearTimeout(p),
              !.shown = [t \in 1..Len(trackData) |-> 0]]

\* setTimeout returns an id no timer set before has: the ids the script has
\* forgotten may be taken again, the one it holds and the pending ones may not.
setTimeout(p) ==
    CHOOSE id \in 1..(Cardinality(p.timers) + 2) :
        id \notin p.timers /\ Some(id) # p.animationId

\* animate, lines 1289-1305.
animate(p) ==
    IF ~p.isAnimating THEN p
    ELSE LET drawn == drawTracks([p EXCEPT !.currentFrame = @ + 1])
         IN  IF drawn.currentFrame >= maxFrames
             THEN pauseAnimation(drawn)
             ELSE [drawn EXCEPT !.animationId = Some(setTimeout(drawn)),
                                !.timers = @ \cup {setTimeout(drawn)}]

\* startAnimation, lines 1103-1108.
startAnimation(p) ==
    animate([p EXCEPT !.isAnimating = TRUE, !.startBtn = TRUE, !.pauseBtn = FALSE])

\* A click on Start; a disabled button gets no click.  MaxFrame bounds the
\* clicks after the last frame.
StartClick ==
    /\ ~page.startBtn
    /\ page.currentFrame < MaxFrame
    /\ page' = startAnimation(page)
    /\ UNCHANGED <<mainVars, trackVars, filterVars, trackData>>

\* A click on Pause.
PauseClick ==
    /\ ~page.pauseBtn
    /\ page' = pauseAnimation(page)
    /\ UNCHANGED <<mainVars, trackVars, filterVars, trackData>>

\* A click on Reset, which is never disabled.
ResetClick ==
    /\ page' = resetAnimation(page)
    /\ UNCHANGED <<mainVars, trackVars, filterVars, trackData>>

\* A pending timer fires and calls animate.
TimerFires ==
    /\ \E id \in page.timers : page' = animate([page EXCEPT !.timers = @ \ {id}])
    /\ UNCHANGED <<mainVars, trackVars, filterVars, trackData>>

\* The page of any tracks of two points or more (line 686), loaded.
PageInit ==
    /\ MainIdle
    /\ TrackIdle
    /\ FilterIdle
    /\ segments = <<>>
    /\ fpc = "idle"
    /\ trackData \in SeqsUpTo(2..MaxPts, MaxTracks)
    /\ page = LoadedPage(trackData)

PageNext == StartClick \/ PauseClick \/ ResetClick \/ TimerFires

SpecPage == PageInit /\ [][PageNext]_vars

(***************************************************************************)
(* The analysis of one track, on any track: the two passes of              *)
(* parse_gpx_file, then calculate_moving_speed statement by statement.     *)
(***************************************************************************)
TrackInit ==
    /\ MainIdle
    /\ TrackIdle
    /\ FilterIdle
    /\ PageIdle
    /\ \E points \in SeqsUpTo(TrkPts, MaxPts) : \E lens \in Cuts(Len(points)) :
          segments = SplitBy(points, lens)
    /\ fpc = "scan"

\* parse_gpx_file, lines 303-334.
ScanPass ==
    /\ fpc = "scan"
    /\ scan' = ScanTrack(segments)
    /\ fpc' = "bounds"
    /\ UNCHANGED <<mainVars, segments, bounds, speed_stats, all_points, idx,
                   total_distance, total_moving_time, pageVars>>

\* parse_gpx_file, lines 336-352.
BoundsPass ==
    /\ fpc = "bounds"
    /\ bounds' = TrackBounds(segments)
    /\ fpc' = "collect"
    /\ UNCHANGED <<mainVars, segments, scan, speed_stats, all_points, idx,
                   total_distance, total_moving_time, pageVars>>

\* calculate_moving_speed, lines 175-209.
Collect ==
    /\ fpc = "collect"
    /\ all_points' = CollectPoints(segments)
    /\ IF Len(all_points') < 2
       THEN speed_stats' = EarlyStats /\ fpc' = "done"
       ELSE speed_stats' = speed_stats /\ fpc' = "sort"
    /\ UNCHANGED <<mainVars, segments, scan, bounds, idx, total_distance,
                   total_moving_time, pageVars>>

\* calculate_moving_speed, lines 211-214.
SortPoints ==
    /\ fpc = "sort"
    /\ all_points' = SortByTime(all_points)
    /\ idx' = 1
    /\ fpc' = "pairs"
    /\ UNCHANGED <<mainVars, trackVars, total_distance, total_moving_time, pageVars>>

\* calculate_moving_speed, lines 214-230: one turn of the loop (idx is Python's i,
\* so the pair is all_points[i-1], all_points[i] counted from 0).
PairTurn ==
    /\ fpc = "pairs"
    /\ idx < Len(all_points)
    /\ LET after == PairStep([distance |-> total_distance, time |-> total_moving_time],
                             all_points[idx], all_points[idx + 1])
       IN  /\ total_distance' = after.distance
           /\ total_moving_time' = after.time
    /\ idx' = idx + 1
    /\ UNCHANGED <<mainVars, trackVars, fpc, all_points, pageVars>>

\* calculate_moving_speed, lines 232-251.
Speeds ==
    /\ fpc = "pairs"
    /\ idx >= Len(all_points)
    /\ speed_stats' = StatsOf([distance |-> total_distance, time |-> total_moving_time])
    /\ fpc' = "done"
    /\ UNCHANGED <<mainVars, segments, scan, bounds, all_points, idx, total_distance,
                   total_moving_time, pageVars>>

TrackNext == ScanPass \/ BoundsPass \/ Collect \/ SortPoints \/ PairTurn \/ Speeds

SpecTrack == TrackInit /\ [][TrackNext]_vars

(***************************************************************************)
(* The program: main, parse_gpx_file and get_place_name.                   *)
(***************************************************************************)
Init ==
    /\ pc = "main"
    /\ args \in ArgSets
    /\ doc \in Documents
    /\ tracks = <<>>
    /\ i = 0
    /\ track_info = <<>>
    /\ start_place = Unknown
    /\ end_place = Unknown
    /\ gp = IdleFrame
    /\ lookups = <<>>
    /\ printed = <<>>
    /\ written = <<>>
    /\ segments = <<>>
    /\ TrackIdle
    /\ FilterIdle
    /\ PageIdle
    /\ fpc = "idle"

\* main, line 1433.
file_path == IF args.gpx_file # Dash THEN args.gpx_file ELSE default_file

\* main, lines 1427-1446.  parse_arguments declares gpx_file as a positional
\* argument without nargs: without it parse_args prints the usage, the error
\* "the following arguments are required: gpx_file", and exits with status 2.
MainStart ==
    /\ pc = "main"
    /\ IF args.gpx_file = NoFile
       THEN /\ printed' = Append(printed, "error: the following arguments are required")
            /\ pc' = "usage"
       ELSE IF LooksLikeGpx(file_path)
       THEN /\ printed' = Append(printed, "Parsing GPX file")
            /\ pc' = "parse"
       ELSE /\ printed' = Append(printed, "Error: Invalid GPX file specified")
            /\ pc' = "exit"
    /\ UNCHANGED <<args, doc, tracks, i, track_info, start_place, end_place, gp, lookups,
                   written, trackVars, filterVars, pageVars>>

\* tracks[:max_tracks] when max_tracks and len(tracks) > max_tracks.
Limited(trks, max_tracks) ==
    IF max_tracks # None /\ max_tracks[1] # 0 /\ Len(trks) > max_tracks[1]
    THEN SubSeq(trks, 1, max_tracks[1])
    ELSE trks

\* parse_gpx_file, lines 266-288 and its handlers, lines 402-407.
ParseFile ==
    /\ pc = "parse"
    /\ IF doc.state = "missing"
       THEN /\ printed' = Append(printed, "Error: File not found")
            /\ UNCHANGED <<tracks, i>>
            /\ pc' = "parsed"
       ELSE IF doc.state = "malformed"
       THEN /\ printed' = Append(printed, "Error parsing GPX file")
            /\ UNCHANGED <<tracks, i>>
            /\ pc' = "parsed"
       ELSE /\ printed' = Append(printed, "Found tracks")
            /\ tracks' = Limited(doc.trks, args.max_tracks)
            /\ i' = 1
            /\ pc' = IF tracks' = <<>> THEN "parsed" ELSE "track"
    /\ track_info' = <<>>
    /\ UNCHANGED <<args, doc, start_place, end_place, gp, lookups, written, trackVars,
                   filterVars, pageVars>>

\* The frame of a call get_place_name(lat, lon, geolocator).
Frame(who, lat, lon) ==
    [who |-> who, lat |-> lat, lon |-> lon, attempt |-> 0, calls |-> 0, slept |-> FALSE,
     last |-> Outcome("no call", NoAddress)]

\* float(point.get('lat', 0)), float(point.get('lon', 0)) on every point of the
\* bounds pass, lines 341-343: one attribute float rejects raises ValueError.
FloatRaises(segs) ==
    \E s \in 1..Len(segs) : \E p \in 1..Len(segs[s]) :
        NotANumber(segs[s][p].lat) \/ NotANumber(segs[s][p].lon)

\* A variant of the handler that returns the summaries appended so far.
OnErrorKeep(info) == info

\* Lines 408-410: except Exception prints the error and returns [].
OnError(info) == <<>>

\* parse_gpx_file, lines 288-359: the passes over the track in hand, up to the
\* call that resolves its start; a ValueError of float ends parse_gpx_file in
\* its handler, lines 408-410.
TrackScan ==
    /\ pc = "track"
    /\ segments' = tracks[i]
    /\ start_place' = Unknown
    /\ end_place' = Unknown
    /\ IF FloatRaises(segments')
       THEN /\ printed' = Append(printed, "Unexpected error")
            /\ track_info' = OnError(track_info)
            /\ gp' = IdleFrame
            /\ lookups' = <<>>
            /\ pc' = "parsed"
            /\ UNCHANGED <<scan, bounds>>
       ELSE /\ scan' = ScanTrack(segments')
            /\ bounds' = TrackBounds(segments')
            /\ IF scan'.start_lat # None /\ scan'.start_lon # None
               THEN /\ gp' = Frame("start", scan'.start_lat[1], scan'.start_lon[1])
                    /\ lookups' = <<"start">>
                    /\ pc' = "geocode"
               ELSE /\ gp' = IdleFrame
                    /\ lookups' = <<>>
                    /\ pc' = "end_lookup"
            /\ UNCHANGED <<printed, track_info>>
    /\ UNCHANGED <<args, doc, tracks, i, written, speed_stats, filterVars, pageVars>>

\* get_place_name returns place to parse_gpx_file, line 359 or line 365.
Return(place) ==
    /\ IF gp.who = "start"
       THEN start_place' = place /\ end_place' = end_place /\ pc' = "end_lookup"
       ELSE end_place' = place /\ start_place' = start_place /\ pc' = "route"

\* A variant of the loop bound with one turn too many.
AnotherTurnOffByOne(attempt) == attempt + 1 <= max_retries

\* for attempt in range(max_retries): after this turn there is another.
AnotherTurn(attempt) == attempt + 1 < max_retries

\* Line 132: the error is followed by a sleep and a retry.
RetryAfterError(attempt) == attempt < max_retries - 1

\* A variant of the except clause that names GeocoderTimedOut alone.
CaughtTimeoutOnly(kind) == kind = "timed_out"

\* Line 131: except (GeocoderTimedOut, GeocoderServiceError).
Caught(kind) == kind \in {"timed_out", "service_error"}

\* get_place_name, lines 85-139: one turn of the loop up to its return, its sleep
\* or its next turn.  An exception the except clause does not name leaves
\* get_place_name and ends parse_gpx_file in its handler, lines 408-410.
GeoCall ==
    /\ pc = "geocode"
    /\ \E outcome \in GeocoderOutcomes :
          LET called == [gp EXCEPT !.calls = @ + 1, !.slept = FALSE, !.last = outcome]
          IN  IF outcome.kind = "location"
              THEN /\ gp' = called
                   /\ Return(PlaceOfAddress(outcome.address, gp.lat, gp.lon))
                   /\ UNCHANGED <<printed, track_info>>
              ELSE IF outcome.kind = "none"
              THEN /\ IF AnotherTurn(gp.attempt)
                      THEN /\ gp' = [called EXCEPT !.attempt = @ + 1]
                           /\ UNCHANGED <<pc, start_place, end_place>>
                      ELSE /\ gp' = called
                           /\ Return(CoordString(gp.lat, gp.lon))
                   /\ UNCHANGED <<printed, track_info>>
              ELSE IF ~Caught(outcome.kind)
              THEN /\ gp' = IdleFrame
                   /\ printed' = Append(printed, "Unexpected error")
                   /\ track_info' = OnError(track_info)
                   /\ pc' = "parsed"
                   /\ UNCHANGED <<start_place, end_place>>
              ELSE IF RetryAfterError(gp.attempt)
                   THEN /\ gp' = called
                        /\ pc' = "sleep"
                        /\ UNCHANGED <<printed, track_info, start_place, end_place>>
                   ELSE /\ gp' = called
                        /\ printed' = Append(printed, "Geocoding failed")
                        /\ Return(CoordString(gp.lat, gp.lon))
                        /\ UNCHANGED track_info
    /\ UNCHANGED <<args, doc, tracks, i, lookups, written, trackVars, filterVars, pageVars>>

\* get_place_name, lines 133-134: time.sleep(1), then continue.
GeoSleep ==
    /\ pc = "sleep"
    /\ gp' = [gp EXCEPT !.slept = TRUE, !.attempt = @ + 1]
    /\ pc' = "geocode"
    /\ UNCHANGED <<args, doc, tracks, i, track_info, start_place, end_place, lookups,
                   printed, written, trackVars, filterVars, pageVars>>

\* A variant that looks the end up at exactly the threshold too.
SeparateEndInclusive(s) ==
    \/ s.start_lat = None
    \/ s.start_lon = None
    \/ haversine_distance(s.start_lat[1], s.start_lon[1], s.end_lat[1], s.end_lon[1])
          >= EndLookupThreshold

\* Lines 363-364: the end is looked up apart from the start.
SeparateEnd(s) ==
    \/ s.start_lat = None
    \/ s.start_lon = None
    \/ haversine_distance(s.start_lat[1], s.start_lon[1], s.end_lat[1], s.end_lon[1])
          > EndLookupThreshold

\* parse_gpx_file, lines 361-367.
EndLookup ==
    /\ pc = "end_lookup"
    /\ IF scan.end_lat # None /\ scan.end_lon # None
       THEN IF SeparateEnd(scan)
            THEN /\ gp' = Frame("end", scan.end_lat[1], scan.end_lon[1])
                 /\ lookups' = Append(lookups, "end")
                 /\ pc' = "geocode"
                 /\ UNCHANGED end_place
            ELSE /\ end_place' = start_place
                 /\ gp' = IdleFrame
                 /\ pc' = "route"
                 /\ UNCHANGED lookups
       ELSE /\ gp' = IdleFrame
            /\ pc' = "route"
            /\ UNCHANGED <<lookups, end_place>>
    /\ UNCHANGED <<args, doc, tracks, i, track_info, start_place, printed, written,
                   trackVars, filterVars, pageVars>>

\* A variant that names both places whether or not they are equal.
RouteNameBoth(from, to) == <<from, to>>

\* Lines 369-373: the places of the route name, " - " between two of them.
RouteName(from, to) == IF from = to THEN <<from>> ELSE <<from, to>>

\* Lines 291-297 and 378-396; the tracks of the model have no name and no desc
\* element.
Summary(index) ==
    [index |-> index,
     name |-> <<"Unnamed Track", index>>,
     route_name |-> RouteName(start_place, end_place),
     description |-> "",
     num_segments |-> Len(segments),
     total_points |-> scan.total_points,
     first_time |-> scan.first_time,
     last_time |-> scan.last_time,
     start_location |-> [lat |-> scan.start_lat, lon |-> scan.start_lon,
                         place |-> start_place],
     end_location |-> [lat |-> scan.end_lat, lon |-> scan.end_lon, place |-> end_place],
     bounds |-> bounds,
     speed_stats |-> calculate_moving_speed(segments)]

\* A variant of the loop over the tracks that stops after its first turn.
MoreTracksNever(index, trks) == FALSE

\* Line 288: for i, track in enumerate(tracks, 1) has another turn to take.
MoreTracks(index, trks) == index < Len(trks)

\* parse_gpx_file, lines 369-400.
FinishTrack ==
    /\ pc = "route"
    /\ speed_stats' = calculate_moving_speed(segments)
    /\ track_info' = Append(track_info, Summary(i))
    /\ IF MoreTracks(i, tracks)
       THEN i' = i + 1 /\ pc' = "track"
       ELSE i' = i /\ pc' = "parsed"
    /\ gp' = IdleFrame
    /\ lookups' = <<>>
    /\ UNCHANGED <<args, doc, tracks, start_place, end_place, printed, written, segments,
                   scan, bounds, filterVars, pageVars>>

\* A variant that takes any result of parse_gpx_file for tracks to report.
NoTracksNever(info) == FALSE

\* main, line 1452: not tracks.
NoTracks(info) == info = <<>>

\* main, lines 1450-1454.
MainParsed ==
    /\ pc = "parsed"
    /\ IF NoTracks(track_info)
       THEN /\ printed' = Append(printed, "No tracks found in the GPX file.")
            /\ pc' = "exit"
       ELSE /\ printed' = printed
            /\ pc' = "report"
    /\ UNCHANGED <<args, doc, tracks, i, track_info, start_place, end_place, gp, lookups,
                   written, trackVars, filterVars, pageVars>>

(***************************************************************************)
(* The files written.  A file is its name, its header row and its rows; a  *)
(* field of a row is the list of one value, the empty list for the empty   *)
(* string.  The lines of the report and the page are not modelled.         *)
(***************************************************************************)
Artifact(file, header, rows) == [file |-> file, header |-> header, rows |-> rows]

\* export_tracks_to_csv, lines 572-594.
csv_headers ==
    <<"Track_Number", "Track_Name", "Route_Description", "Start_Location",
      "End_Location", "Segments", "Total_Points", "Start_Time", "End_Time",
      "Duration_Hours", "Distance_KM", "Distance_Miles", "Distance_Nautical_Miles",
      "Moving_Time_Hours", "Average_Speed_KMH", "Average_Speed_MPH",
      "Average_Speed_Knots", "Min_Latitude", "Max_Latitude", "Min_Longitude",
      "Max_Longitude">>

\* round(x, 2) of a value kept in thousandths: hundredths.
Round2(thousandths) == (thousandths + 5) \div 10

\* round(x, 6) of a coordinate: millionths of a degree, 0.111 m of arc each.
Round6(x) == (x * 1000 + 55) \div 111

\* speed_stats.get(key, 0)
StatGet(stats, key) == IF key \in DOMAIN stats THEN stats[key] ELSE 0

\* Lines 615-616: strftime of a time, '' for None; the time to the second.
TimeField(t) == IF t # None THEN <<t[1]>> ELSE <<>>

\* A variant that writes the duration whether it is positive or not.
DurationFieldAlways(first_time, last_time) ==
    LET seconds == IF first_time # None /\ last_time # None
                   THEN last_time[1] - first_time[1]
                   ELSE 0
    IN  <<(seconds * 100 + 1800) \div 3600>>

\* Lines 606-609 and 629: the duration in hundredths of an hour, '' when it is
\* not positive.
DurationField(first_time, last_time) ==
    LET seconds == IF first_time # None /\ last_time # None
                   THEN last_time[1] - first_time[1]
                   ELSE 0
    IN  IF seconds > 0 THEN <<(seconds * 100 + 1800) \div 3600>> ELSE <<>>

\* Lines 637-640.
BoundField(b) == IF b # None THEN <<Round6(b[1])>> ELSE <<>>

\* Lines 619-641.
CsvRow(track) ==
    <<<<track.index>>,
      <<track.name>>,
      <<track.route_name>>,
      <<track.start_location.place>>,
      IF track.end_location.place # track.start_location.place
      THEN <<track.end_location.place>> ELSE <<>>,
      <<track.num_segments>>,
      <<track.total_points>>,
      TimeField(track.first_time),
      TimeField(track.last_time),
      DurationField(track.first_time, track.last_time),
      <<Round2(StatGet(track.speed_stats, "total_distance_km"))>>,
      <<Round2(StatGet(track.speed_stats, "total_distance_miles"))>>,
      <<Round2(StatGet(track.speed_stats, "total_distance_nautical_miles"))>>,
      <<Round2(StatGet(track.speed_stats, "moving_time_hours"))>>,
      <<Round2(StatGet(track.speed_stats, "avg_speed_kmh"))>>,
      <<Round2(StatGet(track.speed_stats, "avg_speed_mph"))>>,
      <<Round2(StatGet(track.speed_stats, "avg_speed_knots"))>>,
      BoundField(track.bounds.min_lat),
      BoundField(track.bounds.max_lat),
      BoundField(track.bounds.min_lon),
      BoundField(track.bounds.max_lon)>>

\* Lines 604-643: one row for each track.
CsvRows(trks) == [k \in 1..Len(trks) |-> CsvRow(trks[k])]

\* round(x, 1) of a value kept in thousandths: tenths.
Round1(thousandths) == (thousandths + 50) \div 100

Max(a, b) == IF a >= b THEN a ELSE b

\* sum(t['speed_stats'].get(key, 0) for t in trks)
RECURSIVE SumStat(_, _)
SumStat(trks, key) ==
    IF trks = <<>> THEN 0
    ELSE StatGet(Head(trks).speed_stats, key) + SumStat(Tail(trks), key)

\* print_track_summary, line 480: the tracks whose totals enter the running totals.
HasDistance(track) == StatGet(track.speed_stats, "total_distance_km") > 0

\* print_track_summary, lines 435-438, 494-497 and 518-542: the figure of the line
\* "Overall Average Speed", in hundredths of a km/h; no such line for one track
\* or without distance or moving time.
OverallAverageSpeed(trks) ==
    LET moved == SelectSeq(trks, HasDistance)
        total_distance_km == SumStat(moved, "total_distance_km")
        total_moving_time_hours == SumStat(moved, "moving_time_hours")
    IN  IF Len(trks) > 1 /\ total_distance_km > 0 /\ total_moving_time_hours > 0
        THEN <<Round2((total_distance_km * 1000) \div total_moving_time_hours)>>
        ELSE <<>>

\* export_tracks_to_html_visualization, lines 940-952: the four figures of the
\* summary statistics, the last three in tenths.
SummaryStatistics(trks) ==
    LET distance_km == SumStat(trks, "total_distance_km")
        moving_hours == SumStat(trks, "moving_time_hours")
    IN  <<Len(trks),
          Round1(distance_km),
          Round1(moving_hours),
          Round1((distance_km * 1000) \div Max(moving_hours, 1000))>>

\* Lines 681-720: the entry of track_data for a track of more than one point.
TrackEntry(track) ==
    [index |-> track.index,
     name |-> track.name,
     route_name |-> track.route_name,
     total_distance |-> StatGet(track.speed_stats, "total_distance_km"),
     avg_speed |-> StatGet(track.speed_stats, "avg_speed_kmh")]

RECURSIVE TrackData(_)
TrackData(trks) ==
    IF trks = <<>> THEN <<>>
    ELSE IF Head(trks).total_points > 1
         THEN <<TrackEntry(Head(trks))>> \o TrackData(Tail(trks))
         ELSE TrackData(Tail(trks))

\* What open(name, 'w') may do: give the file, or raise OSError.
OpenOutcomes == {"opened", "os_error"}

\* main, lines 1456-1467, and its handler, lines 1486-1488: an open that raises
\* leaves main through sys.exit(1).
WriteReport ==
    /\ pc = "report"
    /\ \E outcome \in OpenOutcomes :
          IF outcome = "opened"
          THEN /\ written' = Append(written, Artifact(args.output,
                                                      OverallAverageSpeed(track_info), <<>>))
               /\ printed' = printed
               /\ pc' = "csv"
          ELSE /\ written' = written
               /\ printed' = Append(printed, "An error occurred")
               /\ pc' = "failed"
    /\ UNCHANGED <<args, doc, tracks, i, track_info, start_place, end_place, gp, lookups,
                   trackVars, filterVars, pageVars>>

\* A variant in which the error of the CSV export reaches the handler of main.
AfterCsvUncaught(outcome) == IF outcome = "opened" THEN "html" ELSE "failed"

\* Lines 596-648: export_tracks_to_csv returns to main whether the write raised
\* or not.
AfterCsv(outcome) == "html"

\* main, lines 1469-1471, and export_tracks_to_csv.
ExportCsv ==
    /\ pc = "csv"
    /\ IF args.csv = NoFile
       THEN /\ pc' = "html"
            /\ UNCHANGED <<written, printed>>
       ELSE \E outcome \in OpenOutcomes :
               /\ IF outcome = "opened"
                  THEN /\ written' = Append(written, Artifact(args.csv, csv_headers,
                                                              CsvRows(track_info)))
                       /\ printed' = printed
                  ELSE /\ written' = written
                       /\ printed' = Append(printed, "Error writing CSV file")
               /\ pc' = AfterCsv(outcome)
    /\ UNCHANGED <<args, doc, tracks, i, track_info, start_place, end_place, gp, lookups,
                   trackVars, filterVars, pageVars>>

\* output_file.replace('.txt', '_visualization.html')
AutoHtml(output_file) ==
    IF output_file.ext = "txt"
    THEN FileName(output_file.stem, "_visualization.html")
    ELSE output_file

\* main, lines 1474-1478: the name of the page, NoFile when none is written.
html_filename ==
    IF args.html # NoFile THEN args.html
    ELSE IF args.csv = NoFile THEN AutoHtml(args.output)
    ELSE NoFile

\* main, lines 1473-1478, and export_tracks_to_html_visualization.
ExportHtml ==
    /\ pc = "html"
    /\ IF html_filename = NoFile
       THEN UNCHANGED <<written, printed>>
       ELSE \E outcome \in OpenOutcomes :
               IF outcome = "opened"
               THEN /\ written' = Append(written, Artifact(html_filename,
                                                           SummaryStatistics(track_info),
                                                           TrackData(track_info)))
                    /\ printed' = printed
               ELSE /\ written' = written
                    /\ printed' = Append(printed, "Error writing HTML visualization file")
    /\ pc' = "exit"
    /\ UNCHANGED <<args, doc, tracks, i, track_info, start_place, end_place, gp, lookups,
                   trackVars, filterVars, pageVars>>

\* The exit status of the process once main is over: 0 when main returns, 1 from
\* sys.exit(1) in the handlers of main, 2 from parse_args.
exit_status == IF pc = "failed" THEN 1 ELSE IF pc = "usage" THEN 2 ELSE 0

Next ==
    \/ MainStart
    \/ ParseFile
    \/ TrackScan
    \/ GeoCall
    \/ GeoSleep
    \/ EndLookup
    \/ FinishTrack
    \/ MainParsed
    \/ WriteReport
    \/ ExportCsv
    \/ ExportHtml

Spec == Init /\ [][Next]_vars

(***************************************************************************)
(* The program on rides of a quarter of an hour, half an hour and an hour   *)
(* at 10 and 9 km/h and on a track with a latitude that is not a number,   *)
(* with an --output that ends in ".txt" and one that does not.             *)
(***************************************************************************)
RideTracks ==
    {<< <<RoutePt(10, 0), RoutePt(2510, 900)>> >>,
     << <<RoutePt(10, 0), RoutePt(5010, 1800)>> >>,
     << <<RoutePt(10, 0), RoutePt(9010, 3600)>> >>,
     << <<TrkPt(Malformed, Some(40), TimeElem("iso", 0))>> >>}

RideArgSets ==
    [gpx_file : {FileName("ride", "gpx")},
     max_tracks : {None},
     output : {FileName("track_list", "txt"), FileName("summary", "log")},
     csv : {NoFile, FileName("tracks", "csv")},
     html : {NoFile, FileName("viz", "html")}]

RideInit ==
    /\ pc = "main"
    /\ args \in RideArgSets
    /\ doc \in {[state |-> "ok", trks |-> t] : t \in SeqsUpTo(RideTracks, MaxTracks)}
    /\ tracks = <<>>
    /\ i = 0
    /\ track_info = <<>>
    /\ start_place = Unknown
    /\ end_place = Unknown
    /\ gp = IdleFrame
    /\ lookups = <<>>
    /\ printed = <<>>
    /\ written = <<>>
    /\ segments = <<>>
    /\ TrackIdle
    /\ FilterIdle
    /\ PageIdle
    /\ fpc = "idle"

SpecRide == RideInit /\ [][Next]_vars

(***************************************************************************)
(* The CSV export of the summary of one track, on any track: main after it *)
(* has written the report of a document of that one track, every lookup    *)
(* having come back with no result.                                        *)
(***************************************************************************)
CsvInit ==
    /\ \E points \in SeqsUpTo(TrkPts, MaxPts) : \E lens \in Cuts(Len(points)) :
          segments = SplitBy(points, lens)
    /\ scan = ScanTrack(segments)
    /\ bounds = TrackBounds(segments)
    /\ speed_stats = calculate_moving_speed(segments)
    /\ start_place = IF scan.start_lat # None
                     THEN CoordString(scan.start_lat[1], scan.start_lon[1])
                     ELSE Unknown
    /\ end_place = IF scan.end_lat = None THEN Unknown
                   ELSE IF SeparateEnd(scan)
                        THEN CoordString(scan.end_lat[1], scan.end_lon[1])
                        ELSE start_place
    /\ args = [gpx_file |-> FileName("ride", "gpx"), max_tracks |-> None,
               output |-> FileName("track_list", "txt"),
               csv |-> FileName("tracks", "csv"), html |-> NoFile]
    /\ doc = [state |-> "ok", trks |-> <<segments>>]
    /\ tracks = <<segments>>
    /\ i = 1
    /\ track_info = <<Summary(1)>>
    /\ gp = IdleFrame
    /\ lookups = <<>>
    /\ printed = <<"Parsing GPX file", "Found tracks">>
    /\ written = <<Artifact(args.output, <<>>, <<>>)>>
    /\ pc = "csv"
    /\ FilterIdle
    /\ PageIdle
    /\ fpc = "idle"

SpecCsv == CsvInit /\ [][ExportCsv]_vars

(***************************************************************************)
(* One call of get_place_name whose first attempt returns a location, on   *)
(* any address record: each key the code reads is absent or has a value.   *)
(***************************************************************************)
AddressRecords ==
    [city : {"", "Boulder"}, town : {"", "Lyons"}, village : {"", "Nederland"},
     hamlet : {"", "Eldora"}, suburb : {"", "Martin Acres"},
     neighbourhood : {"", "Goss-Grove"},
     state : {"", "Colorado", "Puerto Rico"}, province : {"", "Ontario"},
     region : {"", "Occitanie"}, country : {"", "United States", "France"}]

PlaceInit ==
    /\ pc = "geocode"
    /\ args = CHOOSE a \in ArgSets : TRUE
    /\ doc = [state |-> "ok", trks |-> <<>>]
    /\ tracks = <<>>
    /\ i = 0
    /\ track_info = <<>>
    /\ start_place = Unknown
    /\ end_place = Unknown
    /\ \E lat \in {10, 520} : gp = Frame("start", lat, 40)
    /\ lookups = <<"start">>
    /\ printed = <<>>
    /\ written = <<>>
    /\ segments = <<>>
    /\ TrackIdle
    /\ FilterIdle
    /\ PageIdle
    /\ fpc = "idle"

\* get_place_name, lines 85-129: the first attempt returns a location.
ResolveLocation ==
    /\ pc = "geocode"
    /\ \E address \in AddressRecords :
          /\ gp' = [gp EXCEPT !.calls = @ + 1, !.last = Outcome("location", address)]
          /\ Return(PlaceOfAddress(address, gp.lat, gp.lon))
    /\ UNCHANGED <<args, doc, tracks, i, track_info, lookups, printed, written, trackVars,
                   filterVars, pageVars>>

SpecPlace == PlaceInit /\ [][ResolveLocation]_vars

(***************************************************************************)
(* Properties of calculate_moving_speed, checked under SpecTrack.          *)
(***************************************************************************)
\* The points of the track in file order, all segments together.
FilePoints == Flatten(segments)

\* The points of s that carry a timestamp that parses.
Timestamped(s) == {k \in 1..Len(s) : s[k].time.kind = "iso"}

\* The pair of all_points that the loop is about to judge, and is judging.
InPairTurn == fpc = "pairs" /\ idx < Len(all_points) /\ idx' = idx + 1

\* C1: each consecutive pair of the time-sorted points adds its distance d and
\* its elapsed time dt to the moving totals if and only if d >= 0.01 km and
\* 0 < dt <= 3600 s, whatever the other pairs are; any other pair adds nothing
\* to either total.
C1_PairCountsIffMovement ==
    [][InPairTurn =>
         LET prev == all_points[idx]
             curr == all_points[idx + 1]
             d == haversine_distance(prev.lat, prev.lon, curr.lat, curr.lon)
             dt == curr.time - prev.time
         IN  IF d >= 10 /\ 0 < dt /\ dt <= 3600
             THEN /\ total_distance' = total_distance + d
                  /\ total_moving_time' = total_moving_time + dt
             ELSE /\ total_distance' = total_distance
                  /\ total_moving_time' = total_moving_time]_vars

\* A track of three timestamped points whose first pair stands still for 1 s and
\* whose second pair moves 10 m in 3600 s: only the second pair was counted.
C1_Witness ==
    /\ fpc = "done"
    /\ Len(all_points) = 3
    /\ all_points[1].lat = all_points[2].lat
    /\ all_points[2].time - all_points[1].time = 1
    /\ all_points[3].time - all_points[2].time = 3600
    /\ total_distance = 10
    /\ total_moving_time = 3600

\* C2: when fewer than 2 points of the track carry a parseable timestamp, every
\* value of the statistics returned is 0.
C2_FewTimestampsAllZero ==
    (fpc = "done" /\ Cardinality(Timestamped(FilePoints)) < 2)
        => \A f \in DOMAIN speed_stats : speed_stats[f] = 0

\* Three points, two of them without a usable time element, one with a time.
C2_Witness ==
    /\ fpc = "done"
    /\ Len(FilePoints) = 3
    /\ Cardinality(Timestamped(FilePoints)) = 1
    /\ \E k \in 1..3 : FilePoints[k].time.kind = "bad"
    /\ speed_stats # None

\* The subsequence of s with time t.
AtTime(s, t) == LET Is(x) == x.time = t IN SelectSeq(s, Is)

\* sorted holds the elements of original in ascending order of time, those of
\* equal time in the order they have in original.
IsStableSortOf(sorted, original) ==
    /\ \A k \in 1..(Len(sorted) - 1) : sorted[k].time <= sorted[k + 1].time
    /\ Len(sorted) = Len(original)
    /\ \A t \in {original[k].time : k \in 1..Len(original)}
                \cup {sorted[k].time : k \in 1..Len(sorted)} :
          AtTime(sorted, t) = AtTime(original, t)

\* The retained points in file order: every timestamped point of every segment,
\* its coordinates and its time.
RetainedInFileOrder ==
    LET timed == LET Is(p) == p.time.kind = "iso" IN SelectSeq(FilePoints, Is)
    IN  [k \in 1..Len(timed) |->
            [lat |-> CoordOf(timed[k].lat), lon |-> CoordOf(timed[k].lon),
             time |-> timed[k].time.at]]

\* The distance and the time of the moving pairs among the first n points of s,
\* taken two by two in the order of s.
RECURSIVE MovingSum(_, _)
MovingSum(s, n) ==
    IF n < 2 THEN [distance |-> 0, time |-> 0]
    ELSE LET before == MovingSum(s, n - 1)
             d == haversine_distance(s[n - 1].lat, s[n - 1].lon, s[n].lat, s[n].lon)
             dt == s[n].time - s[n - 1].time
         IN  IF d >= 10 /\ 0 < dt /\ dt <= 3600
             THEN [distance |-> before.distance + d, time |-> before.time + dt]
             ELSE before

\* C3: before pairs are formed the retained points of all segments are put in
\* ascending order of timestamp, points of equal timestamp keeping their file
\* order, and the pairs are the consecutive points of that order, across
\* segment boundaries.
C3_PairsOnStableTimeOrder ==
    /\ fpc = "pairs" =>
          LET sofar == MovingSum(all_points, idx)
          IN  /\ idx = 1 => IsStableSortOf(all_points, RetainedInFileOrder)
              /\ idx \in 1..Len(all_points)
              /\ total_distance = sofar.distance
              /\ total_moving_time = sofar.time
    /\ (fpc = "done" /\ Len(all_points) >= 2) =>
          LET all == MovingSum(all_points, Len(all_points))
          IN  /\ IsStableSortOf(all_points, RetainedInFileOrder)
              /\ speed_stats.total_distance_km = all.distance
              /\ speed_stats.moving_time_seconds = all.time

\* Two segments whose points are out of time order in the file, with two points
\* of equal time: the pairs about to be formed are not the pairs of the file.
C3_Witness ==
    /\ fpc = "pairs"
    /\ Len(segments) = 2
    /\ Len(segments[1]) = 1
    /\ Len(segments[2]) = 2
    /\ Len(all_points) = 3
    /\ all_points # RetainedInFileOrder
    /\ all_points[1].time = all_points[2].time
    /\ all_points[1].lat # all_points[2].lat

(***************************************************************************)
(* Properties of get_place_name and parse_gpx_file, checked under Spec.    *)
(***************************************************************************)
\* get_place_name is running its loop.
InLoop == pc \in {"geocode", "sleep"}

\* get_place_name has just returned and its caller has not gone on yet.
Returned == gp.who # "nobody" /\ pc \in {"end_lookup", "route"}

\* What get_place_name has just returned.
Result == IF gp.who = "start" THEN start_place ELSE end_place

\* The address has none of the parts a place is made of.
NoUsablePart(address) ==
    \A key \in {"city", "town", "village", "hamlet", "suburb", "neighbourhood",
                "state", "province", "region", "country"} :
        address[key] = "" \/ (key = "country" /\ address[key] = "United States")

\* C4: one call of get_place_name calls the geocoder at most 3 times and never
\* again after a call that returned an address record; it returns the
\* coordinate string of 4 decimals when every attempt failed with a timeout or
\* a service error and when no usable address data came back; it always ends,
\* with a string: each turn of its loop is one call, at most 3 turns are taken
\* and a step is always possible.
C4_BoundedRetriesThenCoordinates ==
    /\ gp.calls <= 3
    /\ InLoop =>
          /\ gp.last.kind # "location"
          /\ gp.attempt < 3
          /\ gp.calls = gp.attempt + (IF pc = "sleep" THEN 1 ELSE 0)
          /\ ENABLED (GeoCall \/ GeoSleep)
    /\ Returned =>
          /\ gp.calls >= 1
          /\ Result.kind \in {"name", "coords"}
          /\ gp.last.kind \in {"none", "timed_out", "service_error"} => gp.calls = 3
          /\ (\/ gp.last.kind \in {"none", "timed_out", "service_error"}
              \/ NoUsablePart(gp.last.address))
                => Result = [kind |-> "coords", parts |-> <<>>,
                             lat |-> (gp.lat * 10 + 55) \div 111,
                             lon |-> (gp.lon * 10 + 55) \div 111]
          /\ (gp.last.kind = "location" /\ ~NoUsablePart(gp.last.address))
                => Result.kind = "name"

\* The third attempt at the start of a track timed out like the two before it:
\* the start place is the coordinate string.
C4_Witness ==
    /\ Returned
    /\ gp.who = "start"
    /\ gp.calls = 3
    /\ gp.last.kind = "timed_out"
    /\ start_place.kind = "coords"
    /\ printed[Len(printed)] = "Geocoding failed"

\* C5: within one call of get_place_name a second or third call of the geocoder
\* never starts without a 1-second sleep since the previous call.
C5_SleepBeforeEveryRetry ==
    (pc = "geocode" /\ gp.calls >= 1) => gp.slept

\* C6: a geocoding failure never aborts track processing: whatever the geocoder
\* does on any attempt, parse_gpx_file appends the summary of the track in hand
\* and goes on to the following tracks, so that it returns one summary for
\* each track to process, in order.
C6_GeocodingNeverAborts ==
    /\ pc \in {"track", "geocode", "sleep", "end_lookup", "route"} =>
          /\ i \in 1..Len(tracks)
          /\ Len(track_info) = i - 1
    /\ (pc \in {"parsed", "report", "csv", "html", "exit"} /\ doc.state = "ok"
        /\ LooksLikeGpx(file_path)) =>
          /\ Len(track_info) = Len(tracks)
          /\ \A k \in 1..Len(track_info) : track_info[k].index = k
    /\ (Returned /\ gp.last.kind \in {"none", "timed_out", "service_error"}) =>
          /\ Result.kind = "coords"
          /\ Len(track_info) = i - 1

\* The geocoder failed three times on the start of the first of two tracks, and
\* both summaries were returned and reported.
C6_Witness ==
    /\ pc = "exit"
    /\ Len(track_info) = 2
    /\ Len(printed) >= 3
    /\ printed[3] = "Geocoding failed"
    /\ track_info[1].start_location.place.kind = "coords"
    /\ written # <<>>

\* The first and the last point of the track in hand, in file order, and the
\* distance between them in metres.
StartPoint == FilePoints[1]
EndPoint == FilePoints[Len(FilePoints)]
StartToEnd ==
    haversine_distance(StartPoint.lat[1], StartPoint.lon[1], EndPoint.lat[1], EndPoint.lon[1])

\* C7: for a track with at least one point the start coordinate is resolved
\* first; the end coordinate gets a resolution of its own if and only if it is
\* more than 0.5 km from the start; at 0.5 km or less no lookup is made for the
\* end and the end place is the place the start resolved to.
C7_EndResolvedApartIffFar ==
    (pc \in {"geocode", "sleep", "end_lookup", "route"} /\ FilePoints # <<>>) =>
        /\ lookups # <<>>
        /\ lookups[1] = "start"
        /\ (InLoop /\ gp.who = "start") =>
              /\ lookups = <<"start">>
              /\ gp.lat = StartPoint.lat[1]
              /\ gp.lon = StartPoint.lon[1]
        /\ (InLoop /\ gp.who = "end") =>
              /\ lookups = <<"start", "end">>
              /\ gp.lat = EndPoint.lat[1]
              /\ gp.lon = EndPoint.lon[1]
              /\ StartToEnd > 500
        /\ pc = "route" =>
              /\ lookups = IF StartToEnd > 500 THEN <<"start", "end">> ELSE <<"start">>
              /\ StartToEnd <= 500 => end_place = start_place

\* A track that ends exactly 0.5 km from its start, which resolved to a name: the
\* end was not looked up and has the name of the start.
C7_Witness ==
    /\ pc = "route"
    /\ Len(FilePoints) = 2
    /\ StartToEnd = 500
    /\ lookups = <<"start">>
    /\ start_place.kind = "name"
    /\ end_place = start_place

\* The document was not found or is not well-formed XML.
DocumentFailed == doc.state \in {"missing", "malformed"}

\* The messages that report an error, and how many of them s holds.
ErrorMessages ==
    {"Error: File not found", "Error parsing GPX file", "Unexpected error",
     "Error: Invalid GPX file specified"}
ErrorsIn(s) == Cardinality({k \in 1..Len(s) : s[k] \in ErrorMessages})

\* C10: when the file is not found or is malformed XML the error is reported
\* once, parse_gpx_file returns no summary, no track is processed and main
\* writes no text report, no CSV file and no HTML file.
C10_DocumentFailureNoOutput ==
    DocumentFailed =>
        /\ written = <<>>
        /\ track_info = <<>>
        /\ pc \in {"main", "parse", "parsed", "exit", "usage"}
        /\ ErrorsIn(printed) <= 1
        /\ (pc \in {"parsed", "exit"} /\ LooksLikeGpx(file_path)) =>
              /\ ErrorsIn(printed) = 1
              /\ printed[2] = IF doc.state = "missing" THEN "Error: File not found"
                              ELSE "Error parsing GPX file"

\* main has returned on a malformed document although a CSV and an HTML file were
\* asked for: one error was printed, nothing was written.
C10_Witness ==
    /\ pc = "exit"
    /\ doc.state = "malformed"
    /\ args.csv # NoFile
    /\ args.html # NoFile
    /\ printed = <<"Parsing GPX file", "Error parsing GPX file",
                   "No tracks found in the GPX file.">>
    /\ written = <<>>

(***************************************************************************)
(* Properties of the points with a defect, checked under SpecTrack.        *)
(***************************************************************************)
\* The point has both coordinate attributes.
HasCoords(p) == p.lat # None /\ p.lon # None

\* The segments without the points that lack a coordinate attribute.
WithCoords(segs) == [k \in 1..Len(segs) |-> SelectSeq(segs[k], HasCoords)]

\* C8: a point with a missing lat or lon attribute is skipped: the start and end
\* location, the bounds and the movement statistics of the track are those of
\* the track without that point.
C8_MissingCoordinateSkipped ==
    fpc = "done" =>
        /\ scan.start_lat = ScanTrack(WithCoords(segments)).start_lat
        /\ scan.start_lon = ScanTrack(WithCoords(segments)).start_lon
        /\ scan.end_lat = ScanTrack(WithCoords(segments)).end_lat
        /\ scan.end_lon = ScanTrack(WithCoords(segments)).end_lon
        /\ bounds = TrackBounds(WithCoords(segments))
        /\ speed_stats.total_distance_km =
              calculate_moving_speed(WithCoords(segments)).total_distance_km

\* The point has no time that parses: no time element, one without text, or a
\* text that is not an ISO time.
Untimed(p) == p.time.kind \in {"absent", "empty", "bad"}

\* The segments without the points that have no time that parses.
Timed(segs) ==
    [k \in 1..Len(segs) |-> LET Is(p) == ~Untimed(p) IN SelectSeq(segs[k], Is)]

\* The segments with every time that does not parse taken away.
TimeMissing(segs) ==
    [k \in 1..Len(segs) |->
        [n \in 1..Len(segs[k]) |->
            IF Untimed(segs[k][n])
            THEN [segs[k][n] EXCEPT !.time = [kind |-> "absent", at |-> 0]]
            ELSE segs[k][n]]]

\* The times of the points s that have one.
TimesOf(s) == {s[k].time.at : k \in Timestamped(s)}

\* C9: a point whose time element is absent, empty or unparseable takes no part
\* in the movement filter or in the time range, is counted in total_points and
\* widens the bounds; the track is processed as if the time were missing.
C9_UntimedPointCountedNotTimed ==
    fpc = "done" =>
        LET points == FilePoints
            times == TimesOf(points)
            missing == TimeMissing(segments)
        IN  /\ scan.total_points = Len(points)
            /\ scan.first_time = IF times = {} THEN <<>>
                                 ELSE <<CHOOSE t \in times : \A u \in times : t <= u>>
            /\ scan.last_time = IF times = {} THEN <<>>
                                ELSE <<CHOOSE t \in times : \A u \in times : t >= u>>
            /\ scan = ScanTrack(missing)
            /\ \A k \in 1..Len(points) :
                  (Untimed(points[k]) /\ HasCoords(points[k])) =>
                      /\ bounds.min_lat[1] <= points[k].lat[1]
                      /\ bounds.max_lat[1] >= points[k].lat[1]
                      /\ bounds.min_lon[1] <= points[k].lon[1]
                      /\ bounds.max_lon[1] >= points[k].lon[1]
            /\ Len(all_points) = Cardinality(Timestamped(points))
            /\ speed_stats = calculate_moving_speed(Timed(segments))
            /\ speed_stats = calculate_moving_speed(missing)

\* Between two points at latitude 20 with times 1 and 3601 stands a point at
\* latitude 10 whose time does not parse: three points are counted, the bounds
\* reach latitude 10, the time range is 1 to 3601 and two points were paired.
C9_Witness ==
    /\ fpc = "done"
    /\ Len(FilePoints) = 3
    /\ FilePoints[2].time.kind = "bad"
    /\ FilePoints[1] = TrkPt(<<20>>, <<40>>, TimeElem("iso", 1))
    /\ FilePoints[3] = TrkPt(<<20>>, <<40>>, TimeElem("iso", 3601))
    /\ scan.total_points = 3
    /\ bounds.min_lat = <<10>>
    /\ scan.first_time = <<1>>
    /\ scan.last_time = <<3601>>
    /\ Len(all_points) = 2

(***************************************************************************)
(* Properties of main and of the summaries, checked under Spec.            *)
(***************************************************************************)
\* C11: every summary is computed before any output is written: a write happens
\* only after parse_gpx_file has returned the summaries of all the tracks to
\* process, and from the first write on the summaries never change.
C11_SummariesBeforeWrites ==
    [][(written' # written \/ written # <<>>) =>
          /\ pc \in {"report", "csv", "html", "exit"}
          /\ track_info # <<>>
          /\ Len(track_info) = Len(tracks)
          /\ track_info' = track_info]_vars

\* The report, the CSV file and the HTML file of two tracks have been written.
C11_Witness ==
    /\ pc = "exit"
    /\ Len(written) = 3
    /\ Len(track_info) = 2

\* parse_gpx_file has returned the summaries of a document it could read.
ParsedOk ==
    pc \in {"parsed", "report", "csv", "html", "exit"} /\ doc.state = "ok"
    /\ LooksLikeGpx(file_path)

Min(a, b) == IF a <= b THEN a ELSE b

\* C12: with max_tracks = N >= 0 on a document of T tracks, parse_gpx_file
\* returns exactly min(N, T) summaries, those of the first min(N, T) tracks of
\* the document in document order.
C12_AtMostMaxTracks ==
    (ParsedOk /\ args.max_tracks # <<>>) =>
        /\ Len(track_info) = Min(args.max_tracks[1], Len(doc.trks))
        /\ \A k \in 1..Len(track_info) :
              /\ track_info[k].index = k
              /\ track_info[k].num_segments = Len(doc.trks[k])
              /\ track_info[k].total_points = Len(Flatten(doc.trks[k]))

\* C13: the route name is the start place alone when the start place and the
\* end place are equal, and otherwise the start place, " - ", the end place.
C13_RouteNameOfPlaces ==
    \A k \in 1..Len(track_info) :
        LET from == track_info[k].start_location.place
            to == track_info[k].end_location.place
        IN  /\ from = to => track_info[k].route_name = <<from>>
            /\ from # to => track_info[k].route_name = <<from, to>>

\* Of two tracks whose ends were looked up apart from their starts, one came to
\* the same name twice and has it for a route name, the other to a name and a
\* coordinate string.
C13_Witness ==
    /\ Len(track_info) = 2
    /\ tracks[1] = tracks[2]
    /\ Len(track_info[1].route_name) = 1
    /\ track_info[1].start_location.lat # track_info[1].end_location.lat
    /\ track_info[1].start_location.place.kind = "name"
    /\ Len(track_info[2].route_name) = 2
    /\ track_info[2].end_location.place.kind = "coords"

(***************************************************************************)
(* Properties of the statistics and of the two passes of a track, checked  *)
(* under SpecTrack.                                                        *)
(***************************************************************************)
\* C14: avg_speed_kmh is total_distance / total_moving_time * 3600 when
\* total_moving_time > 0 and 0 otherwise, the totals being those of the
\* qualifying pairs alone (metres per hour, the integer part).
C14_AverageSpeedOfMovingTotals ==
    fpc = "done" =>
        LET moving == MovingSum(all_points, Len(all_points))
            avg == speed_stats.avg_speed_kmh
        IN  IF moving.time > 0
            THEN /\ avg * moving.time <= moving.distance * 3600
                 /\ moving.distance * 3600 < (avg + 1) * moving.time
            ELSE avg = 0

\* Three timestamped points: the first pair moves 10 m in 1 s, the second stands
\* still for an hour and is not counted; the speed is 36 km/h.
C14_Witness ==
    /\ fpc = "done"
    /\ Len(all_points) = 3
    /\ all_points[3].time - all_points[2].time = 3600
    /\ total_distance = 10
    /\ total_moving_time = 1
    /\ speed_stats.avg_speed_kmh = 36000

\* C15: first_time and last_time are the least and the greatest of the times of
\* the points that have a valid one, in whatever order the file has them; both
\* are absent exactly when no point has a valid time, and otherwise
\* first_time <= last_time.
C15_TimeRangeIsMinMax ==
    fpc = "done" =>
        LET times == TimesOf(FilePoints)
        IN  /\ scan.first_time = <<>> <=> times = {}
            /\ scan.last_time = <<>> <=> times = {}
            /\ times # {} =>
                  /\ scan.first_time[1] \in times
                  /\ scan.last_time[1] \in times
                  /\ \A t \in times : scan.first_time[1] <= t /\ t <= scan.last_time[1]
                  /\ scan.first_time[1] <= scan.last_time[1]

\* The file has the times 3601, 0, 1 in this order: the range is 0 to 3601.
C15_Witness ==
    /\ fpc = "done"
    /\ Len(FilePoints) = 3
    /\ \A k \in 1..3 : FilePoints[k].time.kind = "iso"
    /\ FilePoints[1].time.at = 3601
    /\ FilePoints[2].time.at = 0
    /\ FilePoints[3].time.at = 1
    /\ scan.first_time = <<0>>
    /\ scan.last_time = <<3601>>

\* The latitude and the longitude the program reads from a point (0 for an
\* attribute that is missing).
LatOf(p) == IF p.lat = <<>> THEN 0 ELSE p.lat[1]
LonOf(p) == IF p.lon = <<>> THEN 0 ELSE p.lon[1]

\* C16: the bounds are the least rectangle that holds every point of every
\* segment: each point lies within them, each of the four is the coordinate of
\* some point, and all four are absent exactly when the track has no point.
C16_BoundsAreLeastRectangle ==
    fpc = "done" =>
        LET points == FilePoints
            lats == {LatOf(points[k]) : k \in 1..Len(points)}
            lons == {LonOf(points[k]) : k \in 1..Len(points)}
        IN  /\ \A f \in {"min_lat", "max_lat", "min_lon", "max_lon"} :
                  bounds[f] = <<>> <=> points = <<>>
            /\ points # <<>> =>
                  /\ bounds.min_lat[1] \in lats
                  /\ bounds.max_lat[1] \in lats
                  /\ bounds.min_lon[1] \in lons
                  /\ bounds.max_lon[1] \in lons
                  /\ \A lat \in lats : bounds.min_lat[1] <= lat /\ lat <= bounds.max_lat[1]
                  /\ \A lon \in lons : bounds.min_lon[1] <= lon /\ lon <= bounds.max_lon[1]

\* Two segments with the latitudes 20 | 10, 20: the least latitude is that of the
\* second point, the greatest that of the first.
C16_Witness ==
    /\ fpc = "done"
    /\ Len(segments) = 2
    /\ Len(segments[1]) = 1
    /\ Len(segments[2]) = 2
    /\ segments[1][1].lat = <<20>>
    /\ segments[2][1].lat = <<10>>
    /\ segments[2][2].lat = <<20>>
    /\ bounds.min_lat = <<10>>
    /\ bounds.max_lat = <<20>>

\* C17: the start location is the first point and the end location the last
\* point of all the segments put end to end in file order, not in time order,
\* empty segments being passed over; both are absent exactly when the track has
\* no point.
C17_StartEndInFileOrder ==
    fpc = "done" =>
        LET points == FilePoints
        IN  /\ \A f \in {"start_lat", "start_lon", "end_lat", "end_lon"} :
                  scan[f] = <<>> <=> points = <<>>
            /\ points # <<>> =>
                  /\ scan.start_lat[1] = LatOf(points[1])
                  /\ scan.start_lon[1] = LonOf(points[1])
                  /\ scan.end_lat[1] = LatOf(points[Len(points)])
                  /\ scan.end_lon[1] = LonOf(points[Len(points)])

\* A first segment of two points, the later in time first, and an empty second
\* segment: the start is the point that is first in the file and last in time.
C17_Witness ==
    /\ fpc = "done"
    /\ Len(segments) = 2
    /\ Len(segments[1]) = 2
    /\ segments[2] = <<>>
    /\ segments[1][1] = TrkPt(<<20>>, <<40>>, TimeElem("iso", 3601))
    /\ segments[1][2] = TrkPt(<<10>>, <<40>>, TimeElem("iso", 0))
    /\ scan.start_lat = <<20>>
    /\ scan.end_lat = <<10>>

(***************************************************************************)
(* Properties of the place string, checked under SpecPlace.                *)
(***************************************************************************)
\* The first of the strings s that is not empty, as a list of one, or no list.
FirstOf(s) ==
    IF \A k \in 1..Len(s) : s[k] = "" THEN <<>>
    ELSE LET first == CHOOSE k \in 1..Len(s) : s[k] # "" /\ \A j \in 1..(k - 1) : s[j] = ""
         IN  <<s[first]>>

\* The 2-letter code of the table for a state name, the name where it has none.
CodeOrName(name) ==
    IF \E e \in state_abbrevs : e[1] = name
    THEN (CHOOSE e \in state_abbrevs : e[1] = name)[2]
    ELSE name

\* C18: the place of an address record is, joined in this order: the locality
\* (city, town, village, hamlet, then suburb, then neighbourhood); the region
\* (state, else province, else region), by its 2-letter code when the country
\* is "United States" and the table has one, in full otherwise; the country
\* unless it is "United States".  With no part it is the coordinate string of
\* 4 decimals.
C18_PlaceStringOfAddress ==
    pc = "end_lookup" =>
        LET a == gp.last.address
            locality == FirstOf(<<a.city, a.town, a.village, a.hamlet, a.suburb,
                                  a.neighbourhood>>)
            named == FirstOf(<<a.state, a.province, a.region>>)
            region == IF named # <<>> /\ a.country = "United States"
                      THEN <<CodeOrName(named[1])>>
                      ELSE named
            country == IF a.country \in {"", "United States"} THEN <<>> ELSE <<a.country>>
            parts == locality \o region \o country
        IN  IF parts # <<>>
            THEN start_place = [kind |-> "name", parts |-> parts, lat |-> 0, lon |-> 0]
            ELSE start_place = [kind |-> "coords", parts |-> <<>>,
                                lat |-> (gp.lat * 10 + 55) \div 111,
                                lon |-> (gp.lon * 10 + 55) \div 111]

\* An address with a village, a suburb and the state Colorado in the United
\* States: the place is "Nederland, CO".
C18_Witness ==
    /\ pc = "end_lookup"
    /\ gp.last.address.city = ""
    /\ gp.last.address.suburb = "Martin Acres"
    /\ gp.last.address.province = "Ontario"
    /\ start_place.parts = <<"Nederland", "CO">>

(***************************************************************************)
(* Properties of the command line, checked under Spec.                     *)
(***************************************************************************)
\* C19: when the command line has no positional file path, the program
\* processes the default file explore.gpx, whatever options are given.
C19_DefaultFileWhenNoPath ==
    (pc = "usage" /\ args.gpx_file = NoFile) =>
        /\ file_path = default_file
        /\ printed # <<>>
        /\ printed[1] = "Parsing GPX file"

(***************************************************************************)
(* Properties of the CSV export, checked under SpecCsv.                    *)
(***************************************************************************)
\* The CSV files among the files written.
CsvWritten == {w \in 1..Len(written) : written[w].file.ext = "csv"}

\* The place of the column called name in the header row.
ColumnOf(header, name) == CHOOSE n \in 1..Len(header) : header[n] = name

\* C20: in the CSV file the row of a track with no valid timestamp has the empty
\* string for Start_Time, End_Time and Duration_Hours, and every row has the 21
\* fields of the header.
C20_UntimedTrackEmptyTimeFields ==
    \A w \in CsvWritten :
        LET header == written[w].header
            rows == written[w].rows
        IN  /\ Len(header) = 21
            /\ \A m, n \in 1..Len(header) : header[m] = header[n] => m = n
            /\ Len(rows) = Len(doc.trks)
            /\ \A k \in 1..Len(rows) :
                  /\ Len(rows[k]) = Len(header)
                  /\ TimesOf(Flatten(doc.trks[k])) = {} =>
                        /\ rows[k][ColumnOf(header, "Start_Time")] = <<>>
                        /\ rows[k][ColumnOf(header, "End_Time")] = <<>>
                        /\ rows[k][ColumnOf(header, "Duration_Hours")] = <<>>

\* The CSV file of a track of three points, one without a time element, one with
\* an empty one and one with a time that does not parse: the three are counted
\* and the time fields are empty.
C20_Witness ==
    /\ pc = "html"
    /\ Len(written) = 2
    /\ {FilePoints[k].time.kind : k \in 1..Len(FilePoints)} = {"absent", "empty", "bad"}
    /\ written[2].rows[1][7] = <<3>>
    /\ written[2].rows[1][8] = <<>>
    /\ written[2].rows[1][10] = <<>>

(***************************************************************************)
(* Properties of the files written, checked under Spec and SpecRide.       *)
(***************************************************************************)
\* The write of the CSV file has failed and was reported.
CsvFailed == \E k \in 1..Len(printed) : printed[k] = "Error writing CSV file"

\* C21: a failure to write the CSV file is caught and reported: main goes on to
\* the HTML export and never to its own handler, the summaries stay as they
\* were, and the page written after the failure is made of those summaries.
C21_CsvFailureCaught ==
    [][CsvFailed' =>
          /\ pc' \in {"html", "exit"}
          /\ track_info # <<>>
          /\ track_info' = track_info
          /\ (pc = "csv") => (written' = written /\ pc' = "html")
          /\ (pc = "html" /\ written' # written) =>
                written'[Len(written')] = Artifact(html_filename,
                                                   SummaryStatistics(track_info),
                                                   TrackData(track_info))]_vars

\* The CSV file of two tracks could not be written; the report and the page asked
\* for with --html were.
C21_Witness ==
    /\ pc = "exit"
    /\ CsvFailed
    /\ Len(track_info) = 2
    /\ Len(written) = 2
    /\ written[1].file = args.output
    /\ written[2].file = args.html
    /\ written[2].header[1] = 2

(***************************************************************************)
(* Properties of the statistics record, checked under SpecTrack.           *)
(***************************************************************************)
\* The fields of the record calculate_moving_speed returns at its last line.
StatFields ==
    {"avg_speed_kmh", "avg_speed_mph", "avg_speed_knots", "total_distance_km",
     "total_distance_miles", "total_distance_nautical_miles", "moving_time_seconds",
     "moving_time_hours"}

\* C22: calculate_moving_speed returns the same set of fields in every case:
\* the all-zero record of a track with fewer than two timestamped points has
\* avg_speed_knots and total_distance_nautical_miles too.
C22_SameFieldsInEveryCase ==
    fpc = "done" => DOMAIN speed_stats = StatFields

(***************************************************************************)
(* Properties of the end of main, checked under Spec.                      *)
(***************************************************************************)
\* main is over: it has returned or the process has exited.
Ended == pc \in {"exit", "usage", "failed"}

\* C23: when the input file does not exist or is not well-formed XML, main
\* ends with exit status 1 after the error has been reported.
C23_DocumentFailureExitsOne ==
    (Ended /\ DocumentFailed /\ args.gpx_file # NoFile /\ LooksLikeGpx(file_path)) =>
        /\ ErrorsIn(printed) = 1
        /\ exit_status = 1

\* C24: the page is never written to the path of the text report: whatever
\* --output is, the name main chooses for the page when neither --csv nor
\* --html is given differs from the name of the report.
C24_PageNotOverReport ==
    (pc = "exit" /\ args.html = NoFile /\ args.csv = NoFile /\ Len(written) = 2) =>
        /\ written[1].file = args.output
        /\ written[2].file # written[1].file

(***************************************************************************)
(* Properties of parse_gpx_file on rides, checked under SpecRide.          *)
(***************************************************************************)
\* parse_gpx_file has returned to main.
ParseReturned == pc \in {"parsed", "report", "csv", "html", "exit", "failed"}

\* C25: parse_gpx_file returns all or nothing: one summary for each track to
\* process, numbered 1..n in order, or the empty list, and the empty list
\* when an error is raised while a track, the first or a later one, is
\* processed; never some of the summaries.
C25_AllOrNothing ==
    ParseReturned =>
        /\ \/ track_info = <<>>
           \/ /\ Len(track_info) = Len(tracks)
              /\ \A k \in 1..Len(track_info) : track_info[k].index = k
        /\ (\E k \in 1..Len(tracks) : FloatRaises(tracks[k])) => track_info = <<>>
        /\ (\A k \in 1..Len(tracks) : ~FloatRaises(tracks[k])) =>
              Len(track_info) = Len(tracks)

\* The first track of two was processed, then float raised on the second, and
\* parse_gpx_file returned the empty list.
C25_Witness ==
    /\ pc = "parsed"
    /\ Len(tracks) = 2
    /\ i = 2
    /\ ~FloatRaises(tracks[1])
    /\ FloatRaises(tracks[2])
    /\ track_info = <<>>
    /\ printed[Len(printed)] = "Unexpected error"

(***************************************************************************)
(* Properties of the moving totals, checked under SpecTrack.               *)
(***************************************************************************)
\* C26: the moving time of a track is never more than its elapsed time:
\* moving_time_seconds <= last_time - first_time whenever the track has a
\* time range.
C26_MovingTimeWithinElapsed ==
    (fpc = "done" /\ scan.first_time # None /\ scan.last_time # None) =>
        /\ speed_stats.moving_time_seconds >= 0
        /\ speed_stats.moving_time_seconds <= scan.last_time[1] - scan.first_time[1]

\* Three points over 3601 seconds, of which one second was spent moving.
C26_Witness ==
    /\ fpc = "done"
    /\ scan.first_time = <<0>>
    /\ scan.last_time = <<3601>>
    /\ Len(all_points) = 3
    /\ speed_stats.moving_time_seconds = 1

\* C27: in the record calculate_moving_speed returns the moving distance, the
\* moving time and the average speed are positive together or zero together.
C27_DistanceTimeSpeedTogether ==
    fpc = "done" =>
        /\ speed_stats.total_distance_km >= 0
        /\ speed_stats.moving_time_seconds >= 0
        /\ speed_stats.avg_speed_kmh >= 0
        /\ speed_stats.total_distance_km > 0 <=> speed_stats.moving_time_seconds > 0
        /\ speed_stats.moving_time_seconds > 0 <=> speed_stats.avg_speed_kmh > 0

\* A track of three timestamped points that moved 10 m in one second and then
\* stood still: the three figures are positive.
C27_Witness ==
    /\ fpc = "done"
    /\ Len(all_points) = 3
    /\ speed_stats.total_distance_km = 10
    /\ speed_stats.moving_time_seconds = 1
    /\ speed_stats.avg_speed_kmh = 36000
    /\ all_points[3].lat = all_points[2].lat

(***************************************************************************)
(* Properties of the summary figures, checked under SpecRide.              *)
(***************************************************************************)
\* The pages among the files written after the report.
PagesWritten == {w \in 2..Len(written) : written[w].file.ext # "csv"}

\* C28: the Average Speed of the summary statistics of the page is the overall
\* average speed of the text report, the total moving distance over the total
\* moving time in hours, to the tenth of a km/h the page prints, for every
\* set of tracks whose total moving time is positive.
C28_PageAverageIsReportAverage ==
    \A w \in PagesWritten :
        (written[1].header # <<>> /\ SumStat(track_info, "moving_time_hours") > 0) =>
            Abs(written[w].header[4] * 10 - written[1].header[1]) <= 5

(***************************************************************************)
(* Properties of the script of the page, checked under SpecPage.           *)
(***************************************************************************)
\* The buttons follow isAnimating and at most one timer is pending.
ControlsConsistent(p) ==
    /\ p.startBtn = p.isAnimating
    /\ p.pauseBtn = ~p.isAnimating
    /\ Cardinality(p.timers) <= 1
    /\ ~p.isAnimating => p.timers = {}

\* C29: after any sequence of clicks on Start, Pause and Reset and of timer
\* firings the Start button is disabled exactly when isAnimating is true, the
\* Pause button exactly when it is false, at most one timer is pending, and
\* once the animation is paused or reset no frame advances until a click on
\* Start: no timer is left to fire, and only Start moves currentFrame up.
C29_ControlsFollowAnimation ==
    [][/\ ControlsConsistent(page)
       /\ ControlsConsistent(page')
       /\ (~page.isAnimating /\ page'.currentFrame > page.currentFrame) => StartClick
       /\ (~page.isAnimating /\ ~StartClick) => page'.shown \in {page.shown, LoadedPage(trackData).shown}]_vars

\* Pause was clicked after two frames of a track of three points: the timer set
\* last is cleared and Start is enabled again.
C29_Witness ==
    /\ trackData = <<3>>
    /\ page.currentFrame = 2
    /\ page.shown = <<2>>
    /\ ~page.isAnimating
    /\ page.animationId # None
    /\ page.timers = {}
    /\ ~page.startBtn
    /\ page.pauseBtn

\* C30: currentFrame never exceeds the number of points of the longest track:
\* the animation pauses itself at the last frame and a click on Start after
\* that does not take currentFrame beyond it; only Reset, to 0, changes it.
C30_FrameWithinLongestTrack ==
    trackData # <<>> =>
        /\ page.currentFrame \in 0..maxFrames
        /\ (page.currentFrame = maxFrames) => ~page.isAnimating

=============================================================================
